---------------------------- MODULE Spec2Model ----------------------------
(***************************************************************************)
(* Model of cmd/dijnet/main.go: the invoice downloader's run() with its    *)
(* helpers latestInvoiceDate, promptResume, parseDateFlag and              *)
(* resolveProvider.                                                        *)
(*                                                                         *)
(* Strings are sequences of one-character strings, so that ToLower,        *)
(* TrimSpace, Contains, the filename regexp and the date layout are        *)
(* computed character by character.  A time.Time holding a date is the     *)
(* triple <<year, month, day>>; the zero time.Time is <<1, 1, 1>>.         *)
(***************************************************************************)
EXTENDS Integers, Sequences, FiniteSets, TLC

\* ------------------------------------------------------------------ bounds

\* Longest remote invoice list.
MaxInvoices == 2
\* Most directory entries visited by one walk of the archive (scanner spec).
MaxEntries == 2
\* Longest provider catalog and longest typed filter (resolver spec).
MaxProviders == 2
MaxInputLen == 2
\* Invocations of the program in a row (rerun spec).
MaxRuns == 2

\* ----------------------------------------------------------------- strings

Digits == <<"0", "1", "2", "3", "4", "5", "6", "7", "8", "9">>

IsDigit(c) == \E i \in 1..10 : Digits[i] = c

DigitVal(c) == (CHOOSE i \in 1..10 : Digits[i] = c) - 1

Upper ==
    << "A", "B", "C", "D", "E", "F", "G", "H", "I", "J", "K", "L", "M", "N", "O", "P",
       "Q", "R", "S", "T", "U", "V", "W", "X", "Y", "Z", "E'" >>

Lower ==
    << "a", "b", "c", "d", "e", "f", "g", "h", "i", "j", "k", "l", "m", "n", "o", "p",
       "q", "r", "s", "t", "u", "v", "w", "x", "y", "z", "e'" >>

\* unicode.ToLower on one character ("E'" stands for the accented capital E).
LowerChar(c) ==
    IF \E i \in 1..Len(Upper) : Upper[i] = c
    THEN Lower[CHOOSE i \in 1..Len(Upper) : Upper[i] = c]
    ELSE c

ToLower(s) == [i \in 1..Len(s) |-> LowerChar(s[i])]

IsSpace(c) == c \in {" ", "\t", "\n", "\r"}

RECURSIVE TrimLeft(_)
TrimLeft(s) ==
    IF s # <<>> /\ IsSpace(Head(s)) THEN TrimLeft(Tail(s)) ELSE s

RECURSIVE TrimRight(_)
TrimRight(s) ==
    IF s # <<>> /\ IsSpace(s[Len(s)]) THEN TrimRight(SubSeq(s, 1, Len(s) - 1)) ELSE s

TrimSpace(s) == TrimRight(TrimLeft(s))

Contains(s, sub) ==
    \E i \in 0..(Len(s) - Len(sub)) : SubSeq(s, i + 1, i + Len(sub)) = sub

ReplaceAll(s, old, new) == [i \in 1..Len(s) |-> IF s[i] = old THEN new ELSE s[i]]

HasSuffix(s, suf) ==
    Len(s) >= Len(suf) /\ SubSeq(s, Len(s) - Len(suf) + 1, Len(s)) = suf

\* ------------------------------------------------------------------- dates

ZeroTime == <<1, 1, 1>>

IsZero(t) == t = ZeroTime

\* t.After(u)
After(t, u) ==
    \/ t[1] > u[1]
    \/ t[1] = u[1] /\ t[2] > u[2]
    \/ t[1] = u[1] /\ t[2] = u[2] /\ t[3] > u[3]

IsLeap(y) == y % 4 = 0 /\ (y % 100 # 0 \/ y % 400 = 0)

DaysIn(m, y) ==
    IF m = 2 THEN (IF IsLeap(y) THEN 29 ELSE 28)
    ELSE IF m \in {4, 6, 9, 11} THEN 30 ELSE 31

\* t.AddDate(0, 0, 1)
AddDay(t) ==
    IF t[3] < DaysIn(t[2], t[1]) THEN <<t[1], t[2], t[3] + 1>>
    ELSE IF t[2] < 12 THEN <<t[1], t[2] + 1, 1>>
    ELSE <<t[1] + 1, 1, 1>>

Num2(s, i) == 10 * DigitVal(s[i]) + DigitVal(s[i + 1])

\* time.Parse(dateLayout, s): four digits, "-", two digits, "-", two digits and
\* nothing else, naming a day that exists.
ParseDate(s) ==
    IF /\ Len(s) = 10
       /\ \A i \in {1, 2, 3, 4, 6, 7, 9, 10} : IsDigit(s[i])
       /\ s[5] = "-" /\ s[8] = "-"
    THEN LET y == 100 * Num2(s, 1) + Num2(s, 3)
             m == Num2(s, 6)
             d == Num2(s, 9)
         IN  IF m \in 1..12 /\ d >= 1 /\ d <= DaysIn(m, y)
             THEN [ok |-> TRUE, t |-> <<y, m, d>>]
             ELSE [ok |-> FALSE, t |-> ZeroTime]
    ELSE [ok |-> FALSE, t |-> ZeroTime]

Pad2(n) == <<Digits[((n \div 10) % 10) + 1], Digits[(n % 10) + 1]>>

\* t.Format(dateLayout)
FormatDate(t) ==
    Pad2(t[1] \div 100) \o Pad2(t[1] % 100) \o <<"-">> \o Pad2(t[2]) \o <<"-">> \o Pad2(t[3])

\* ------------------------------------------------------------------- paths

\* filepath.Join of two non-empty elements.
Join(a, b) == a \o <<"/">> \o b

\* filepath.Base: what follows the last separator.
RECURSIVE Base(_)
Base(path) ==
    IF path = <<>> \/ path[Len(path)] = "/" THEN <<>>
    ELSE Base(SubSeq(path, 1, Len(path) - 1)) \o <<path[Len(path)]>>

\* ------------------------------------------------------- latestInvoiceDate

\* invoiceFilenameDateRegex.FindStringSubmatch(s): the captured date text, or
\* <<>> when ^(\d{4}-\d{2}-\d{2})_.*\.(pdf|xml)$ does not match ("." matches no
\* line feed).
RegexDate(s) ==
    IF /\ Len(s) >= 15
       /\ \A i \in {1, 2, 3, 4, 6, 7, 9, 10} : IsDigit(s[i])
       /\ s[5] = "-" /\ s[8] = "-" /\ s[11] = "_"
       /\ \A i \in 12..(Len(s) - 4) : s[i] # "\n"
       /\ \/ HasSuffix(s, <<".", "p", "d", "f">>)
          \/ HasSuffix(s, <<".", "x", "m", "l">>)
    THEN SubSeq(s, 1, 10)
    ELSE <<>>

\* Updates latest only when the date is after it, found or not.
VisitNoFoundTest(acc, path) ==
    LET matches == RegexDate(ToLower(Base(path)))
        parsed == ParseDate(matches)
    IN  IF matches = <<>> \/ ~parsed.ok THEN acc
        ELSE IF After(parsed.t, acc.latest)
             THEN [latest |-> parsed.t, found |-> TRUE]
             ELSE acc

\* Lines 210-224: the walk callback's update of (latest, found) for one file.
Visit(acc, path) ==
    LET matches == RegexDate(ToLower(Base(path)))
        parsed == ParseDate(matches)
    IN  IF matches = <<>> THEN acc
        ELSE IF ~parsed.ok THEN acc
        ELSE IF ~acc.found \/ After(parsed.t, acc.latest)
             THEN [latest |-> parsed.t, found |-> TRUE]
             ELSE acc

\* filepath.WalkDir over the entries in visiting order.  An entry is
\* [path, kind]: a "file", a "dir", or a "baddir" the walk cannot read.
RECURSIVE Walk(_, _)
Walk(entries, acc) ==
    IF entries = <<>> THEN [latest |-> acc.latest, found |-> acc.found, err |-> "none"]
    ELSE LET e == Head(entries)
         IN  IF e.kind = "baddir" THEN [latest |-> ZeroTime, found |-> FALSE, err |-> "walk"]
             ELSE IF e.kind = "dir" THEN Walk(Tail(entries), acc)
             ELSE Walk(Tail(entries), Visit(acc, e.path))

\* Lines 188-231: latestInvoiceDate(basePath); base is what os.Stat finds at
\* basePath.
latestInvoiceDate(base, entries) ==
    IF base = "missing" THEN [latest |-> ZeroTime, found |-> FALSE, err |-> "none"]
    ELSE IF base = "staterr" THEN [latest |-> ZeroTime, found |-> FALSE, err |-> "inspect"]
    ELSE IF base = "file" THEN [latest |-> ZeroTime, found |-> FALSE, err |-> "notdir"]
    ELSE Walk(entries, [latest |-> ZeroTime, found |-> FALSE])


\* --------------------------------------------------------- resolveProvider

\* The position at which a "for _, p := range providers" loop returns, given
\* the positions whose entry passes its test: the first, 0 when there is none.
FirstIndex(hits) ==
    IF hits = {} THEN 0 ELSE CHOOSE i \in hits : \A j \in hits : i <= j

NoFilter == [provider |-> <<>>, err |-> "none"]

Resolved(p) == [provider |-> p, err |-> "none"]

NotFound == [provider |-> <<>>, err |-> "ProviderNotFound"]

\* Checks the substring tier before the case-insensitive tier.
resolveProviderSubstringFirst(input, providers) ==
    IF input = <<>> THEN NoFilter
    ELSE LET exact == FirstIndex({i \in 1..Len(providers) : providers[i] = input})
             inputLower == ToLower(TrimSpace(input))
             fold == FirstIndex({i \in 1..Len(providers) : ToLower(providers[i]) = inputLower})
             sub == FirstIndex({i \in 1..Len(providers) : Contains(ToLower(providers[i]), inputLower)})
         IN  IF exact # 0 THEN Resolved(providers[exact])
             ELSE IF inputLower = <<>> THEN NoFilter
             ELSE IF sub # 0 THEN Resolved(providers[sub])
             ELSE IF fold # 0 THEN Resolved(providers[fold])
             ELSE NotFound

\* Tests whether the input contains the entry, not the entry the input.
resolveProviderSwapped(input, providers) ==
    IF input = <<>> THEN NoFilter
    ELSE LET exact == FirstIndex({i \in 1..Len(providers) : providers[i] = input})
             inputLower == ToLower(TrimSpace(input))
             fold == FirstIndex({i \in 1..Len(providers) : ToLower(providers[i]) = inputLower})
             sub == FirstIndex({i \in 1..Len(providers) : Contains(inputLower, ToLower(providers[i]))})
         IN  IF exact # 0 THEN Resolved(providers[exact])
             ELSE IF inputLower = <<>> THEN NoFilter
             ELSE IF fold # 0 THEN Resolved(providers[fold])
             ELSE IF sub # 0 THEN Resolved(providers[sub])
             ELSE NotFound

\* Lines 259-288
resolveProvider(input, providers) ==
    IF input = <<>> THEN NoFilter
    ELSE LET exact == FirstIndex({i \in 1..Len(providers) : providers[i] = input})
             inputLower == ToLower(TrimSpace(input))
             fold == FirstIndex({i \in 1..Len(providers) : ToLower(providers[i]) = inputLower})
             sub == FirstIndex({i \in 1..Len(providers) : Contains(ToLower(providers[i]), inputLower)})
         IN  IF exact # 0 THEN Resolved(providers[exact])
             ELSE IF inputLower = <<>> THEN NoFilter
             ELSE IF fold # 0 THEN Resolved(providers[fold])
             ELSE IF sub # 0 THEN Resolved(providers[sub])
             ELSE NotFound


\* ------------------------------------------------------------------- state

VARIABLES
    pc,           \* where run() is: "flags", "login", "providers", "scan", "plan",
                  \* "resolve", "download", "exit"
    runs,         \* number of this invocation of the program
    cfg,          \* the parsed flags (config)
    base,         \* what is at cfg.invoicePath: "missing", "file", "staterr", "dir"
    entries,      \* the entries under cfg.invoicePath, in walk order
    catalog,      \* the remote service's invoices
    providers,    \* the provider names srv.Providers() returned
    from,         \* run's from
    to,           \* run's to
    local,        \* [latest, found]: latestLocalInvoiceDate, hasLocalInvoices
    scanned,      \* latestInvoiceDate has been called
    prompt,       \* [asked, input]: whether promptResume ran and the line it read
    query,        \* [sent, provider, issuerID, from, to]: the InvoicesQuery sent
    invoices,     \* what srv.Invoices returned
    idx,          \* the download loop's position (1-based)
    calls,        \* the srv.DownloadInvoice calls made, in order
    remote,       \* names of the remote operations invoked
    err,          \* run's result: [kind, detail], kind "none" for nil
    history       \* one summary per finished earlier invocation

vars == <<pc, runs, cfg, base, entries, catalog, providers, from, to, local, scanned,
          prompt, query, invoices, idx, calls, remote, err, history>>

scanVars == <<base, entries>>

\* Scanner and resolver specifications: the inputs and the result.
VARIABLES sBase, sEntries, sResult, rInput, rCatalog, rResult

pureVars == <<sBase, sEntries, sResult, rInput, rCatalog, rResult>>

allVars == <<vars, pureVars>>

NoError == [kind |-> "none", detail |-> <<>>]

Error(kind, detail) == [kind |-> kind, detail |-> detail]

NoQuery == [sent |-> FALSE, provider |-> <<>>, issuerID |-> <<>>, from |-> ZeroTime, to |-> ZeroTime]

NoPrompt == [asked |-> FALSE, input |-> <<>>]

NoLocal == [latest |-> ZeroTime, found |-> FALSE]

\* --------------------------------------------------------------- run steps

\* parseDateFlag(name, value)
parseDateFlag(value) ==
    IF value = <<>> THEN [ok |-> TRUE, t |-> ZeroTime] ELSE ParseDate(value)

Exit(e) ==
    /\ pc' = "exit"
    /\ err' = e

\* Requires the flags to differ, not both to be set.
FlagsConflictExclusive(c) == c.resume # c.redownload

\* Line 71
FlagsConflict(c) == c.resume /\ c.redownload

\* Compares the bounds the wrong way round.
RangeInvalidReversed(f, t) == ~IsZero(f) /\ ~IsZero(t) /\ After(t, f)

\* Line 83
RangeInvalid(f, t) == ~IsZero(f) /\ ~IsZero(t) /\ After(f, t)

\* Lines 68-89: the checks made before the service is created.
ValidateFlags ==
    /\ pc = "flags"
    /\ LET f == parseDateFlag(cfg.from)
           t == parseDateFlag(cfg.to)
       IN  /\ IF cfg.username = <<>> \/ cfg.password = <<>>
              THEN Exit(Error("MissingCredentials", <<>>))
              ELSE IF FlagsConflict(cfg)
              THEN Exit(Error("ConflictingFlags", <<>>))
              ELSE IF ~f.ok THEN Exit(Error("InvalidDate", cfg.from))
              ELSE IF ~t.ok THEN Exit(Error("InvalidDate", cfg.to))
              ELSE IF RangeInvalid(f.t, t.t)
              THEN Exit(Error("InvalidRange", cfg.from \o <<">">> \o cfg.to))
              ELSE IF ~cfg.downloadPDF /\ ~cfg.downloadXML /\ ~cfg.listInvoices /\ ~cfg.listProviders
              THEN Exit(Error("NothingToDo", <<>>))
              ELSE pc' = "login" /\ err' = err
           /\ from' = f.t
           /\ to' = (IF f.ok THEN t.t ELSE ZeroTime)
    /\ UNCHANGED <<runs, cfg, scanVars, catalog, providers, local, scanned, prompt, query,
                   invoices, idx, calls, remote, history>>
    /\ UNCHANGED pureVars

\* Lines 91-94: srv.Login, which the service may refuse.
Login ==
    /\ pc = "login"
    /\ remote' = remote \cup {"Login"}
    /\ \E ok \in BOOLEAN :
          IF ok THEN pc' = "providers" /\ err' = err
          ELSE Exit(Error("Login", <<>>))
    /\ UNCHANGED <<runs, cfg, scanVars, catalog, providers, from, to, local, scanned, prompt,
                   query, invoices, idx, calls, history>>
    /\ UNCHANGED pureVars

\* Lines 96-108: srv.Providers and --list-providers.
Providers ==
    /\ pc = "providers"
    /\ remote' = remote \cup {"Providers"}
    /\ \E ok \in BOOLEAN :
          IF ~ok THEN Exit(Error("Providers", <<>>))
          ELSE IF cfg.listProviders /\ cfg.provider = <<>> THEN Exit(NoError)
          ELSE pc' = "scan" /\ err' = err
    /\ UNCHANGED <<runs, cfg, scanVars, catalog, providers, from, to, local, scanned, prompt,
                   query, invoices, idx, calls, history>>
    /\ UNCHANGED pureVars

\* Lines 110-113: the archive scan.
Scan ==
    /\ pc = "scan"
    /\ scanned' = TRUE
    /\ LET r == latestInvoiceDate(base, entries)
       IN  IF r.err # "none"
           THEN Exit(Error("Scan", <<>>)) /\ local' = local
           ELSE /\ local' = [latest |-> r.latest, found |-> r.found]
                /\ pc' = "plan"
                /\ err' = err
    /\ UNCHANGED <<runs, cfg, scanVars, catalog, providers, from, to, prompt, query,
                   invoices, idx, calls, remote, history>>
    /\ UNCHANGED pureVars

\* Lines 233-245: promptResume on the text standard input holds up to and
\* including the first line feed; ReadString fails when there is none.
promptResume(input) ==
    IF input = <<>> \/ input[Len(input)] # "\n"
    THEN [ok |-> FALSE, resume |-> FALSE]
    ELSE LET answer == ToLower(TrimSpace(input))
         IN  [ok |-> TRUE,
              resume |-> answer \in {<<>>, <<"y">>, <<"y", "e", "s">>}]

\* What the operator may type at the prompt.
PromptInputs ==
    { <<"\n">>, <<"Y", "\n">>, <<" ", "y", "E", "s", "\r", "\n">>,  \*  yEs<CR><LF>
      <<"n", "\n">>, <<"y", "e", "s", "!", "\n">>, <<"y">> }

\* Resumes only when no --from was given.
EffectiveRangeKeepsFrom(shouldResume) ==
    IF cfg.redownload THEN [from |-> ZeroTime, to |-> ZeroTime]
    ELSE IF shouldResume /\ local.found /\ IsZero(from)
         THEN [from |-> AddDay(local.latest), to |-> to]
         ELSE [from |-> from, to |-> to]

\* Clears only the lower bound under --redownload.
EffectiveRangeKeepsTo(shouldResume) ==
    IF cfg.redownload THEN [from |-> ZeroTime, to |-> to]
    ELSE IF shouldResume /\ local.found
         THEN [from |-> AddDay(local.latest), to |-> to]
         ELSE [from |-> from, to |-> to]

\* Lines 114-117 and 125-127: the range left in (from, to), given shouldResume.
EffectiveRange(shouldResume) ==
    IF cfg.redownload THEN [from |-> ZeroTime, to |-> ZeroTime]
    ELSE IF shouldResume /\ local.found
         THEN [from |-> AddDay(local.latest), to |-> to]
         ELSE [from |-> from, to |-> to]

\* Lines 114-119: whether promptResume is called.
PromptDue == ~cfg.redownload /\ ~cfg.resume /\ local.found

\* Lines 114-128: redownload, resume and the prompt decide the range.
PlanRange ==
    /\ pc = "plan"
    /\ IF PromptDue
       THEN \E input \in PromptInputs :
               LET r == promptResume(input)
               IN  /\ prompt' = [asked |-> TRUE, input |-> input]
                   /\ IF ~r.ok
                      THEN Exit(Error("Prompt", <<>>)) /\ UNCHANGED <<from, to>>
                      ELSE /\ from' = EffectiveRange(r.resume).from
                           /\ to' = EffectiveRange(r.resume).to
                           /\ pc' = "resolve"
                           /\ err' = err
       ELSE /\ from' = EffectiveRange(cfg.resume).from
            /\ to' = EffectiveRange(cfg.resume).to
            /\ pc' = "resolve"
            /\ UNCHANGED <<prompt, err>>
    /\ UNCHANGED <<runs, cfg, scanVars, catalog, providers, local, scanned, query,
                   invoices, idx, calls, remote, history>>
    /\ UNCHANGED pureVars

\* srv.Invoices(query) on the service's side: the catalog's invoices, in
\* catalog order, that pass the query's filters; a zero date is an open bound.
RemoteInvoices(q) ==
    SelectSeq(catalog, LAMBDA inv :
        /\ q.provider = <<>> \/ inv.provider = q.provider
        /\ q.issuerID = <<>> \/ inv.issuerID = q.issuerID
        /\ IsZero(q.from) \/ ~After(q.from, inv.dateOfIssue)
        /\ IsZero(q.to) \/ ~After(inv.dateOfIssue, q.to))

\* Lines 130-160: resolveProvider, srv.Invoices and --list-invoices.
ResolveQuery ==
    /\ pc = "resolve"
    /\ LET r == resolveProvider(cfg.provider, providers)
           q == [sent |-> TRUE, provider |-> r.provider, issuerID |-> cfg.issuerID,
                 from |-> from, to |-> to]
       IN  IF r.err # "none"
           THEN Exit(Error(r.err, cfg.provider)) /\ UNCHANGED <<query, invoices, remote>>
           ELSE /\ query' = q
                /\ remote' = remote \cup {"Invoices"}
                /\ \E ok \in BOOLEAN :
                      IF ~ok THEN Exit(Error("Invoices", <<>>)) /\ invoices' = invoices
                      ELSE /\ invoices' = RemoteInvoices(q)
                           /\ IF Len(invoices') = 0 THEN Exit(NoError)
                              ELSE IF cfg.listInvoices /\ ~cfg.downloadPDF /\ ~cfg.downloadXML
                              THEN Exit(NoError)
                              ELSE pc' = "download" /\ err' = err
    /\ UNCHANGED <<runs, cfg, scanVars, catalog, providers, from, to, local, scanned, prompt,
                   idx, calls, history>>
    /\ UNCHANGED pureVars

\* Line 170: the file name without its extension.
invoiceFilename(invoice) ==
    FormatDate(invoice.dateOfIssue) \o <<"_">> \o ReplaceAll(invoice.invoiceID, "/", "_")

providerPath(invoice) == Join(Join(cfg.invoicePath, invoice.provider), invoice.issuerID)

\* Lines 171-178 with the toggles exchanged.
TargetsSwapped(invoice) ==
    [pdfPath |-> IF cfg.downloadXML
                 THEN Join(providerPath(invoice), invoiceFilename(invoice) \o <<".", "p", "d", "f">>)
                 ELSE <<>>,
     xmlPath |-> IF cfg.downloadPDF
                 THEN Join(providerPath(invoice), invoiceFilename(invoice) \o <<".", "x", "m", "l">>)
                 ELSE <<>>]

\* Lines 171-178: a disabled format's path is "".
Targets(invoice) ==
    [pdfPath |-> IF cfg.downloadPDF
                 THEN Join(providerPath(invoice), invoiceFilename(invoice) \o <<".", "p", "d", "f">>)
                 ELSE <<>>,
     xmlPath |-> IF cfg.downloadXML
                 THEN Join(providerPath(invoice), invoiceFilename(invoice) \o <<".", "x", "m", "l">>)
                 ELSE <<>>]

\* The entries with the files at the given paths written ("" writes nothing).
RECURSIVE WithFiles(_, _)
WithFiles(es, paths) ==
    IF paths = <<>> THEN es
    ELSE LET p == Head(paths)
             e == [path |-> p, kind |-> "file"]
         IN  WithFiles(IF p = <<>> \/ \E i \in 1..Len(es) : es[i] = e THEN es ELSE Append(es, e),
                       Tail(paths))

WithDir(es, p) ==
    LET e == [path |-> p, kind |-> "dir"]
    IN  IF \E i \in 1..Len(es) : es[i] = e THEN es ELSE Append(es, e)

\* Lines 162-183: one iteration of the download loop.  MkdirAll may fail;
\* DownloadInvoice may succeed, fail, or fail having written its first file.
Download ==
    /\ pc = "download"
    /\ LET invoice == invoices[idx]
           t == Targets(invoice)
           first == IF t.pdfPath # <<>> THEN t.pdfPath ELSE t.xmlPath
       IN  \E outcome \in {"mkdir", "ok", "failed", "partial"} :
              IF outcome = "mkdir"
              THEN /\ Exit(Error("DirectoryCreate", providerPath(invoice)))
                   /\ UNCHANGED <<base, entries, calls, remote, idx>>
              ELSE /\ base' = "dir"
                   /\ calls' = Append(calls, [invoice |-> invoice, pdfPath |-> t.pdfPath,
                                              xmlPath |-> t.xmlPath, ok |-> outcome = "ok",
                                              partial |-> outcome = "partial"])
                   /\ remote' = remote \cup {"DownloadInvoice"}
                   /\ entries' = WithFiles(WithDir(entries, providerPath(invoice)),
                                           IF outcome = "ok" THEN <<t.pdfPath, t.xmlPath>>
                                           ELSE IF outcome = "partial" THEN <<first>>
                                           ELSE <<>>)
                   /\ IF outcome # "ok"
                      THEN Exit(Error("DownloadFailed", invoice.invoiceID)) /\ idx' = idx
                      ELSE IF idx = Len(invoices) THEN Exit(NoError) /\ idx' = idx
                      ELSE idx' = idx + 1 /\ UNCHANGED <<pc, err>>
    /\ UNCHANGED <<runs, cfg, catalog, providers, from, to, local, scanned, prompt, query,
                   invoices, history>>
    /\ UNCHANGED pureVars

\* The program is invoked again with the same flags, on the archive as the
\* previous invocation left it.
Rerun ==
    /\ pc = "exit"
    /\ runs < MaxRuns
    /\ runs' = runs + 1
    /\ history' = Append(history, [err |-> err, calls |-> calls])
    /\ pc' = "flags"
    /\ from' = ZeroTime
    /\ to' = ZeroTime
    /\ local' = NoLocal
    /\ scanned' = FALSE
    /\ prompt' = NoPrompt
    /\ query' = NoQuery
    /\ invoices' = <<>>
    /\ idx' = 1
    /\ calls' = <<>>
    /\ remote' = {}
    /\ err' = NoError
    /\ UNCHANGED <<cfg, scanVars, catalog, providers>>
    /\ UNCHANGED pureVars

\* ------------------------------------------------------------------ inputs

InvoicePath == <<"i", "n", "v">>

\* Values given to --from and --to: none, the zero date, two days of 2024 and
\* a day that does not exist.
FlagDates ==
    { <<>>,
      <<"0", "0", "0", "1", "-", "0", "1", "-", "0", "1">>,  \* 0001-01-01
      <<"2", "0", "2", "4", "-", "0", "1", "-", "0", "1">>,  \* 2024-01-01
      <<"2", "0", "2", "4", "-", "0", "2", "-", "1", "0">>,  \* 2024-02-10
      <<"2", "0", "2", "4", "-", "0", "2", "-", "3", "0">> }  \* 2024-02-30

ProviderElmu == <<"E", "l", "m", "u">>
ProviderViz == <<"V", "i", "z", " ", "K", "f", "t">>  \* Viz Kft

\* Values given to --provider: none, a fragment of a name, an unknown name.
ProviderInputs == { <<>>, <<"v", "i", "z">>, <<"G", "a", "z">> }

Configs ==
    [ username : {<<>>, <<"u">>},
      password : {<<"p">>},
      invoicePath : {InvoicePath},
      provider : ProviderInputs,
      issuerID : {<<>>},
      from : FlagDates,
      to : FlagDates,
      resume : BOOLEAN,
      redownload : BOOLEAN,
      listProviders : BOOLEAN,
      listInvoices : BOOLEAN,
      downloadPDF : BOOLEAN,
      downloadXML : BOOLEAN ]
    \cup
    [ username : {<<"u">>},
      password : {<<>>},
      invoicePath : {InvoicePath},
      provider : ProviderInputs,
      issuerID : {<<>>},
      from : FlagDates,
      to : FlagDates,
      resume : BOOLEAN,
      redownload : BOOLEAN,
      listProviders : BOOLEAN,
      listInvoices : BOOLEAN,
      downloadPDF : BOOLEAN,
      downloadXML : BOOLEAN ]

File(path) == [path |-> path, kind |-> "file"]

Dir(path) == [path |-> path, kind |-> "dir"]

\* States of the local archive: [base, entries].
Archives ==
    { [base |-> "missing", entries |-> <<>>],
      [base |-> "file", entries |-> <<>>],
      [base |-> "dir", entries |-> <<File(<<"i", "n", "v", "/", "2", "0", "2", "4", "-", "0", "2", "-", "1", "0", "_", "f", "o", "o", ".", "p", "d", "f">>)>>],  \* inv/2024-02-10_foo.pdf
      [base |-> "dir",
       entries |-> << Dir(<<"i", "n", "v", "/", "o", "l", "d">>),  \* inv/old
                      File(<<"i", "n", "v", "/", "o", "l", "d", "/", "2", "0", "2", "4", "-", "0", "1", "-", "3", "1", "_", "A", ".", "X", "M", "L">>),  \* inv/old/2024-01-31_A.XML
                      File(<<"i", "n", "v", "/", "n", "o", "t", "e", "s", ".", "t", "x", "t">>),  \* inv/notes.txt
                      File(<<"i", "n", "v", "/", "2", "0", "2", "4", "-", "0", "2", "-", "3", "0", "_", "x", ".", "p", "d", "f">>) >>] }  \* inv/2024-02-30_x.pdf

\* The remote service's invoices; two share a date of issue.
InvoicePool ==
    << [provider |-> ProviderElmu, issuerID |-> <<"7">>, invoiceID |-> <<"2", "3", "/", "9">>,
        dateOfIssue |-> <<2024, 1, 15>>],
       [provider |-> ProviderViz, issuerID |-> <<"9">>, invoiceID |-> <<"2", "4", "/", "1">>,
        dateOfIssue |-> <<2024, 2, 10>>],
       [provider |-> ProviderElmu, issuerID |-> <<"7">>, invoiceID |-> <<"2", "4", "/", "1">>,
        dateOfIssue |-> <<2024, 2, 10>>],
       [provider |-> ProviderViz, issuerID |-> <<"9">>, invoiceID |-> <<"A", "-", "3">>,
        dateOfIssue |-> <<2024, 3, 5>>] >>

RECURSIVE SeqsUpTo(_, _)
\* The sequences of at most n elements of S.
SeqsUpTo(S, n) ==
    IF n = 0 THEN {<<>>}
    ELSE LET shorter == SeqsUpTo(S, n - 1)
         IN  shorter \cup {Append(q, x) : q \in shorter, x \in S}

\* Invoice lists without repetition, in any order.
Catalogs ==
    {c \in SeqsUpTo({InvoicePool[i] : i \in 1..Len(InvoicePool)}, MaxInvoices) :
        \A i, j \in 1..Len(c) : i # j => c[i] # c[j]}

\* What one walk may meet: invoices at several depths and in either letter
\* case, the zero date, a day that does not exist, names the pattern rejects,
\* a directory named like an invoice, a directory that cannot be read.
ScanEntries ==
    { File(<<"i", "n", "v", "/", "2", "0", "2", "4", "-", "0", "2", "-", "1", "0", "_", "f", "o", "o", ".", "p", "d", "f">>),  \* inv/2024-02-10_foo.pdf
      File(<<"i", "n", "v", "/", "a", "/", "b", "/", "2", "0", "2", "4", "-", "0", "3", "-", "0", "1", "_", "X", ".", "X", "M", "L">>),  \* inv/a/b/2024-03-01_X.XML
      File(<<"i", "n", "v", "/", "0", "0", "0", "1", "-", "0", "1", "-", "0", "1", "_", "z", ".", "x", "m", "l">>),  \* inv/0001-01-01_z.xml
      File(<<"i", "n", "v", "/", "2", "0", "2", "4", "-", "0", "2", "-", "3", "0", "_", "x", ".", "p", "d", "f">>),  \* inv/2024-02-30_x.pdf
      File(<<"i", "n", "v", "/", "n", "o", "t", "e", "s", ".", "t", "x", "t">>),  \* inv/notes.txt
      File(<<"i", "n", "v", "/", "2", "0", "2", "4", "-", "0", "4", "-", "0", "1", "-", "a", ".", "p", "d", "f">>),  \* inv/2024-04-01-a.pdf
      File(<<"i", "n", "v", "/", "2", "0", "2", "4", "-", "0", "5", "-", "0", "1", "_", "a", ".", "p", "d", "f", ".", "b", "a", "k">>),  \* inv/2024-05-01_a.pdf.bak
      Dir(<<"i", "n", "v", "/", "2", "0", "2", "5", "-", "0", "1", "-", "0", "1", "_", "d", ".", "p", "d", "f">>),  \* inv/2025-01-01_d.pdf
      [path |-> <<"i", "n", "v", "/", "l", "o", "c", "k", "e", "d">>, kind |-> "baddir"] }  \* inv/locked

\* Catalog entries and the characters of typed filters (resolver spec).
ResolverNames ==
    { <<"a">>, <<"A">>, <<"b", "a">>, <<"A", " ">>, <<" ">> }

ResolverChars == {"a", "A", " "}

WaterCatalog ==
    << <<"E'", "l", "e", "c", "t", "r", "i", "c", "i", "t", "e'", " ", "C", "o">>,
       <<"w", "a", "t", "e", "r", "-", "c", "o", "r", "p">>,  \* water-corp
       <<"W", "a", "t", "e", "r", " ", "C", "o", "r", "p", " ", "A", "d", "m", "i", "n">> >>  \* Water Corp Admin

WaterInputs ==
    { <<"w", "a", "t", "e", "r", " ", "c", "o", "r", "p">>,  \* water corp
      <<"W", "A", "T", "E", "R", "-", "C", "O", "R", "P">>,  \* WATER-CORP
      <<" ", "w", "a", "t", "e", "r", " ", "c", "o", "r", "p", " ", "a", "d", "m", "i", "n", " ">>,  \*  water corp admin 
      <<"c", "o">> }

\* Invoice lists of the longest length: in pool order, in the opposite order,
\* and one invoice listed repeatedly.
FullCatalogs ==
    { [i \in 1..MaxInvoices |-> InvoicePool[i]],
      [i \in 1..MaxInvoices |-> InvoicePool[MaxInvoices + 1 - i]],
      [i \in 1..MaxInvoices |-> InvoicePool[1]] }

\* --------------------------------------------------------- specifications

Pending == [done |-> FALSE, value |-> <<>>]

Done(v) == [done |-> TRUE, value |-> v]

RunIdle ==
    /\ pc = "idle"
    /\ runs = 1
    /\ cfg = [provider |-> <<>>]
    /\ base = "missing"
    /\ entries = <<>>
    /\ catalog = <<>>
    /\ providers = <<>>
    /\ from = ZeroTime
    /\ to = ZeroTime
    /\ local = NoLocal
    /\ scanned = FALSE
    /\ prompt = NoPrompt
    /\ query = NoQuery
    /\ invoices = <<>>
    /\ idx = 1
    /\ calls = <<>>
    /\ remote = {}
    /\ err = NoError
    /\ history = <<>>

PureIdle ==
    /\ sBase = "missing"
    /\ sEntries = <<>>
    /\ sResult = Pending
    /\ rInput = <<>>
    /\ rCatalog = <<>>
    /\ rResult = Pending

\* The state main() hands to run(): nothing done yet.
RunStart ==
    /\ pc = "flags"
    /\ runs = 1
    /\ providers = <<ProviderElmu, ProviderViz>>
    /\ from = ZeroTime
    /\ to = ZeroTime
    /\ local = NoLocal
    /\ scanned = FALSE
    /\ prompt = NoPrompt
    /\ query = NoQuery
    /\ invoices = <<>>
    /\ idx = 1
    /\ calls = <<>>
    /\ remote = {}
    /\ err = NoError
    /\ history = <<>>

\* One invocation, with any flags, on any archive.
Init ==
    /\ RunStart
    /\ PureIdle
    /\ cfg \in Configs
    /\ \E a \in Archives : base = a.base /\ entries = a.entries
    /\ catalog \in FullCatalogs

Next ==
    \/ ValidateFlags
    \/ Login
    \/ Providers
    \/ Scan
    \/ PlanRange
    \/ ResolveQuery
    \/ Download

Spec == Init /\ [][Next]_allVars

\* Invocations in a row with the same flags: no explicit dates, no filter, at
\* least one format, starting without an archive.
RerunConfigs ==
    {c \in Configs :
        /\ c.username # <<>> /\ c.password # <<>>
        /\ c.from = <<>> /\ c.to = <<>> /\ c.provider = <<>>
        /\ ~c.listProviders /\ ~c.listInvoices
        /\ c.downloadPDF \/ c.downloadXML
        /\ ~c.redownload}

RerunInit ==
    /\ RunStart
    /\ PureIdle
    /\ cfg \in RerunConfigs
    /\ base \in {"missing", "dir"}
    /\ entries = <<>>
    /\ catalog \in Catalogs

RerunNext ==
    \/ Next
    \/ Rerun

SpecRerun == RerunInit /\ [][RerunNext]_allVars

\* latestInvoiceDate applied to one archive.
ScanInit ==
    /\ RunIdle
    /\ sResult = Pending
    /\ rInput = <<>> /\ rCatalog = <<>> /\ rResult = Pending
    /\ \/ sBase \in {"missing", "file", "staterr"} /\ sEntries = <<>>
       \/ sBase = "dir" /\ sEntries \in SeqsUpTo(ScanEntries, MaxEntries)

ScanApply ==
    /\ ~sResult.done
    /\ sResult' = Done(latestInvoiceDate(sBase, sEntries))
    /\ UNCHANGED <<vars, sBase, sEntries, rInput, rCatalog, rResult>>

SpecScan == ScanInit /\ [][ScanApply]_allVars

\* resolveProvider applied to one filter and one catalog.
ResolveInit ==
    /\ RunIdle
    /\ sBase = "missing" /\ sEntries = <<>> /\ sResult = Pending
    /\ rResult = Pending
    /\ \/ /\ rCatalog \in SeqsUpTo(ResolverNames, MaxProviders)
          /\ rInput \in SeqsUpTo(ResolverChars, MaxInputLen)
       \/ /\ rCatalog = WaterCatalog
          /\ rInput \in WaterInputs

ResolveApply ==
    /\ ~rResult.done
    /\ rResult' = Done(resolveProvider(rInput, rCatalog))
    /\ UNCHANGED <<vars, sBase, sEntries, sResult, rInput, rCatalog>>

SpecResolve == ResolveInit /\ [][ResolveApply]_allVars

\* ------------------------------------------------------------------ claims

ExplicitFrom == parseDateFlag(cfg.from)

ExplicitTo == parseDateFlag(cfg.to)

HasCredentials == cfg.username # <<>> /\ cfg.password # <<>>

\* run() has left the configuration checks behind.
Validated == pc \notin {"idle", "flags"}

\* Lines 114-128 have run: (from, to) is the effective range.
RangeDecided == pc \in {"resolve", "download"} \/ query.sent

\* The prompt inputs that read as an empty line, "y" or "yes" in any case.
YesInputs == { <<"\n">>, <<"Y", "\n">>, <<" ", "y", "E", "s", "\r", "\n">> }  \*  yEs<CR><LF>

\* C1: with --redownload and without --resume, the range of the Invoices
\* query has both bounds open whatever --from, --to and the archive are, and
\* the operator is never prompted.
C1_RedownloadOpensRange ==
    (cfg.redownload /\ ~cfg.resume) =>
        /\ ~prompt.asked
        /\ query.sent => IsZero(query.from) /\ IsZero(query.to)

C1_Witness ==
    /\ cfg.redownload /\ ~cfg.resume
    /\ query.sent
    /\ local.found
    /\ ExplicitFrom.t = <<2024, 1, 1>> /\ ExplicitTo.t = <<2024, 2, 10>>

\* C2 as stated: with --resume and --redownload both set, run always fails
\* with ConflictingFlags, whatever the other inputs (credentials included).
C2_AsStated ==
    (cfg.resume /\ cfg.redownload /\ Validated) =>
        pc = "exit" /\ err.kind = "ConflictingFlags"

\* C2 amended: with both credentials present and --resume and --redownload
\* both set, run fails with ConflictingFlags, whatever the other inputs, before
\* any remote call, scan or prompt; with a credential missing it fails with
\* MissingCredentials instead.
C2_ConflictingFlags ==
    (cfg.resume /\ cfg.redownload /\ Validated) =>
        /\ pc = "exit"
        /\ err.kind = (IF HasCredentials THEN "ConflictingFlags" ELSE "MissingCredentials")
        /\ remote = {} /\ ~scanned /\ ~prompt.asked

C2_Witness ==
    /\ cfg.resume /\ cfg.redownload /\ HasCredentials
    /\ ~ExplicitFrom.ok
    /\ ~cfg.downloadPDF /\ ~cfg.downloadXML /\ ~cfg.listInvoices /\ ~cfg.listProviders
    /\ base = "file"
    /\ pc = "exit" /\ err.kind = "ConflictingFlags"

\* Both --from and --to are given, are dates, and from is after to.
ExplicitInverted ==
    /\ cfg.from # <<>> /\ cfg.to # <<>>
    /\ ExplicitFrom.ok /\ ExplicitTo.ok
    /\ After(ExplicitFrom.t, ExplicitTo.t)

NothingContacted == remote = {} /\ ~scanned /\ ~prompt.asked /\ calls = <<>>

\* C3 as stated: for every explicit (from, to) with both set and from > to,
\* run fails with InvalidRange before any remote call, scan or prompt.
C3_AsStated ==
    (ExplicitInverted /\ Validated) =>
        pc = "exit" /\ err.kind = "InvalidRange" /\ NothingContacted

\* C3 amended: for every explicit (from, to) with both set, neither being
\* 0001-01-01 (the zero date, which reads as an open bound), and from > to,
\* run fails before any remote call, scan or prompt; the error is InvalidRange
\* when the credentials are present and --resume and --redownload are not
\* both set, and MissingCredentials or ConflictingFlags (checked first)
\* otherwise.
C3_InvalidRange ==
    (ExplicitInverted /\ ~IsZero(ExplicitFrom.t) /\ ~IsZero(ExplicitTo.t) /\ Validated) =>
        /\ pc = "exit"
        /\ NothingContacted
        /\ err.kind = (IF ~HasCredentials THEN "MissingCredentials"
                       ELSE IF cfg.resume /\ cfg.redownload THEN "ConflictingFlags"
                       ELSE "InvalidRange")

C3_Witness ==
    /\ ExplicitFrom.t = <<2024, 2, 10>> /\ ExplicitTo.t = <<2024, 1, 1>>
    /\ HasCredentials /\ cfg.redownload /\ ~cfg.resume
    /\ pc = "exit" /\ err.kind = "InvalidRange"

\* Resumption is confirmed: by the flag, or at the prompt.
ResumeConfirmed ==
    \/ cfg.resume
    \/ ~cfg.resume /\ local.found /\ prompt.asked /\ prompt.input \in YesInputs

\* C4 as stated: without --redownload, whenever resumption is confirmed (the
\* flag, or found and a yes at the prompt) the effective from is latestDate + 1
\* day and the effective to the explicit --to; otherwise the explicit bounds
\* are used unmodified.
C4_AsStated ==
    (~cfg.redownload /\ RangeDecided) =>
        /\ to = ExplicitTo.t
        /\ from = (IF ResumeConfirmed THEN AddDay(local.latest) ELSE ExplicitFrom.t)

\* C4 amended: without --redownload, whenever resumption is confirmed (the
\* flag, or a yes at the prompt) and the scan found an invoice, the effective
\* from is latestDate + 1 day, overriding --from, and the effective to is the
\* explicit --to; in every other case, --resume on an archive without invoices
\* included, the explicit bounds are used unmodified.  The query carries the
\* effective range.
C4_EffectiveRange ==
    (~cfg.redownload /\ RangeDecided) =>
        /\ to = ExplicitTo.t
        /\ from = (IF ResumeConfirmed /\ local.found THEN AddDay(local.latest)
                   ELSE ExplicitFrom.t)
        /\ query.sent => query.from = from /\ query.to = to

C4_Witness ==
    /\ ~cfg.redownload /\ ~cfg.resume
    /\ prompt.asked /\ prompt.input = <<" ", "y", "E", "s", "\r", "\n">>  \*  yEs<CR><LF>
    /\ ExplicitFrom.t = <<2024, 1, 1>>
    /\ local.latest = <<2024, 1, 31>>
    /\ query.sent /\ query.from = <<2024, 2, 1>> /\ IsZero(query.to)

Least(S) == CHOOSE i \in S : \A j \in S : i <= j

\* The two strings are equal up to letter case.
EqualFold(a, b) ==
    Len(a) = Len(b) /\ \A i \in 1..Len(a) : LowerChar(a[i]) = LowerChar(b[i])

\* The tiers' matches for the resolver's inputs, as sets of catalog positions.
ExactHits == {i \in 1..Len(rCatalog) : rCatalog[i] = rInput}

FoldHits == {i \in 1..Len(rCatalog) : EqualFold(rCatalog[i], TrimSpace(rInput))}

SubstringHits ==
    {i \in 1..Len(rCatalog) :
        \E k \in 0..Len(rCatalog[i]) :
            /\ k + Len(TrimSpace(rInput)) <= Len(rCatalog[i])
            /\ EqualFold(SubSeq(rCatalog[i], k + 1, k + Len(TrimSpace(rInput))),
                         TrimSpace(rInput))}

TierResult ==
    IF ExactHits # {} THEN Resolved(rInput)
    ELSE IF FoldHits # {} THEN Resolved(rCatalog[Least(FoldHits)])
    ELSE IF SubstringHits # {} THEN Resolved(rCatalog[Least(SubstringHits)])
    ELSE NotFound

\* C5 as stated: for every catalog and every non-empty input, the result is
\* the byte-equal entry if there is one, else the first entry equal to the
\* trimmed input up to case, else the first entry containing it, else
\* ProviderNotFound.
C5_AsStated ==
    (rResult.done /\ rInput # <<>>) => rResult.value = TierResult

\* C5 amended: the same, for every input that is not blank; a non-empty input
\* of white space only that is byte-equal to no entry resolves to "no filter"
\* (the empty name, no error), not to a substring match or ProviderNotFound.
C5_TierOrder ==
    (rResult.done /\ rInput # <<>>) =>
        rResult.value = (IF ExactHits = {} /\ TrimSpace(rInput) = <<>> THEN NoFilter
                         ELSE TierResult)

C5_Witness ==
    /\ rResult.done
    /\ rCatalog = << <<"b", "a">>, <<"A">> >>
    /\ rInput = <<"a", " ">>
    /\ rResult.value = Resolved(<<"A">>)

WaterCorpInput == <<"w", "a", "t", "e", "r", " ", "c", "o", "r", "p">>  \* water corp

\* C6 as stated: for the catalog ["Electricite Co", "water-corp", "Water Corp
\* Admin"] and the input "water corp" the result is "water-corp".
C6_AsStated ==
    (rResult.done /\ rCatalog = WaterCatalog /\ rInput = WaterCorpInput) =>
        rResult.value = Resolved(WaterCatalog[2])

\* C6 amended: for that catalog and the input "water corp", no entry matches
\* at the exact or case-insensitive tier, and the only entry containing
\* "water corp" is "Water Corp Admin" ("water-corp" has a hyphen where the
\* input has a space), so the result is "Water Corp Admin".
C6_WaterCorp ==
    (rResult.done /\ rCatalog = WaterCatalog /\ rInput = WaterCorpInput) =>
        /\ ExactHits = {} /\ FoldHits = {} /\ SubstringHits = {3}
        /\ rResult.value = Resolved(WaterCatalog[3])

C6_Witness ==
    /\ rResult.done /\ rCatalog = WaterCatalog /\ rInput = WaterCorpInput
    /\ rResult.value.err = "none"

\* Years the archive's file names may carry.
ClaimYears == {1, 2024, 2025}

\* The date of issue a file name carries, as a set (empty for none): a day d
\* of the calendar such that the name, in lower case, is d's text, "_", any
\* suffix and ".pdf" or ".xml".
NameDates(path) ==
    LET name == ToLower(Base(path))
    IN  {d \in ClaimYears \X (1..12) \X (1..31) :
            /\ d[3] <= DaysIn(d[2], d[1])
            /\ Len(name) >= 15
            /\ SubSeq(name, 1, 11) = FormatDate(d) \o <<"_">>
            /\ SubSeq(name, Len(name) - 3, Len(name)) \in
                   { <<".", "p", "d", "f">>, <<".", "x", "m", "l">> }}

IsInvoiceFile(e) == e.kind = "file" /\ NameDates(e.path) # {}

ArchiveDates == UNION {NameDates(sEntries[i].path) : i \in {j \in 1..Len(sEntries) : sEntries[j].kind = "file"}}

Readable == \A i \in 1..Len(sEntries) : sEntries[i].kind # "baddir"

\* C7: for every set of files under the base directory the scan reports
\* found iff some file name matches YYYY-MM-DD_<suffix>.(pdf|xml) in any
\* letter case with a date of the calendar, and then latestDate is the
\* greatest such date, whatever the nesting, the visiting order and the
\* extension; files that do not match, or match with an impossible date,
\* change neither the result nor cause an error.
C7_LatestInvoiceDate ==
    (sResult.done /\ sBase = "dir" /\ Readable) =>
        /\ sResult.value.err = "none"
        /\ sResult.value.found = (ArchiveDates # {})
        /\ sResult.value.found =>
              /\ sResult.value.latest \in ArchiveDates
              /\ \A d \in ArchiveDates : ~After(d, sResult.value.latest)
        /\ sResult.value = latestInvoiceDate(sBase, SelectSeq(sEntries, IsInvoiceFile))

C7_Witness ==
    /\ sResult.done /\ sBase = "dir" /\ Len(sEntries) = 2
    /\ sEntries[1] = File(<<"i", "n", "v", "/", "a", "/", "b", "/", "2", "0", "2", "4", "-", "0", "3", "-", "0", "1", "_", "X", ".", "X", "M", "L">>)  \* inv/a/b/2024-03-01_X.XML
    /\ sEntries[2] = File(<<"i", "n", "v", "/", "2", "0", "2", "4", "-", "0", "2", "-", "3", "0", "_", "x", ".", "p", "d", "f">>)  \* inv/2024-02-30_x.pdf
    /\ sResult.value = [latest |-> <<2024, 3, 1>>, found |-> TRUE, err |-> "none"]

\* C8 as stated: the DownloadInvoice calls are a prefix of the invoice list,
\* one per invoice, in order; a path argument is absent exactly when its
\* format is disabled; the first call or directory creation that fails ends
\* the run with an error naming that invoice, and nothing later is attempted.
CallsArePrefix ==
    /\ Len(calls) <= Len(invoices)
    /\ \A k \in 1..Len(calls) :
          /\ calls[k].invoice = invoices[k]
          /\ (calls[k].pdfPath = <<>>) = ~cfg.downloadPDF
          /\ (calls[k].xmlPath = <<>>) = ~cfg.downloadXML
          /\ k < Len(calls) => calls[k].ok
    /\ pc = "download" => Len(calls) = idx - 1 /\ err = NoError
    /\ (pc = "exit" /\ err = NoError /\ calls # <<>>) => Len(calls) = Len(invoices)

FailedCallEndsRun ==
    (calls # <<>> /\ ~calls[Len(calls)].ok) =>
        pc = "exit" /\ err = Error("DownloadFailed", invoices[Len(calls)].invoiceID)

C8_AsStated ==
    /\ CallsArePrefix
    /\ FailedCallEndsRun
    /\ err.kind = "DirectoryCreate" =>
          pc = "exit" /\ err.detail = invoices[Len(calls) + 1].invoiceID

\* C8 amended: as stated, except that a failing directory creation ends the
\* run with an error naming the directory (invoicePath/provider/issuerID), not
\* the invoice, and before any call for that invoice; a failing DownloadInvoice
\* call ends it with an error naming the invoice.
C8_DownloadLoop ==
    /\ CallsArePrefix
    /\ FailedCallEndsRun
    /\ err.kind = "DirectoryCreate" =>
          /\ pc = "exit"
          /\ Len(calls) < Len(invoices)
          /\ err.detail = cfg.invoicePath \o <<"/">> \o invoices[Len(calls) + 1].provider
                              \o <<"/">> \o invoices[Len(calls) + 1].issuerID

C8_Witness ==
    /\ ~cfg.downloadPDF /\ cfg.downloadXML
    /\ Len(invoices) = 2 /\ Len(calls) = 2
    /\ calls[1].ok /\ ~calls[2].ok
    /\ calls[1].pdfPath = <<>>
    /\ calls[1].xmlPath = <<"i", "n", "v", "/", "E", "l", "m", "u", "/", "7", "/", "2", "0", "2", "4", "-", "0", "1", "-", "1", "5", "_", "2", "3", "_", "9", ".", "x", "m", "l">>  \* inv/Elmu/7/2024-01-15_23_9.xml
    /\ pc = "exit" /\ err.kind = "DownloadFailed"

\* C9: in every run that reaches the Invoices query, if both bounds of the
\* query's range are set then from <= to.
C9_RangeOrdered ==
    (query.sent /\ ~IsZero(query.from) /\ ~IsZero(query.to)) =>
        ~After(query.from, query.to)

PreviousRun == history[Len(history)]

DownloadedBefore(inv) ==
    \E k \in 1..Len(PreviousRun.calls) :
        PreviousRun.calls[k].invoice = inv /\ PreviousRun.calls[k].ok

\* The previous run's failed call left no file behind.
NothingPartial ==
    \A k \in 1..Len(PreviousRun.calls) : ~PreviousRun.calls[k].partial

\* C10: after a run that aborted on a download failure, a following run with
\* resume confirmed, on the same catalog and without explicit bounds, calls
\* DownloadInvoice for every catalog invoice the aborted run did not download.
\* (Stated for the aborted runs whose failed call wrote no file, so that only
\* complete downloads are in the archive.)
C10_RerunPicksUp ==
    (/\ history # <<>>
     /\ PreviousRun.err.kind = "DownloadFailed"
     /\ NothingPartial
     /\ ResumeConfirmed
     /\ pc = "exit" /\ err = NoError) =>
        \A i \in 1..Len(catalog) :
            ~DownloadedBefore(catalog[i]) =>
                \E k \in 1..Len(calls) : calls[k].invoice = catalog[i]

=============================================================================
